---- MODULE Spec2Model ----
(***************************************************************************)
(* Model of ExcelToJSONConverter (src/app.py): load_excel_data scans the   *)
(* 'Janitorial Services' sheet row by row into buildings_data, and         *)
(* convert_to_api_json maps buildings_data to the API document.            *)
(*                                                                         *)
(* Python values are records [t, v, s]: t is the type tag, v the integer   *)
(* payload of a number, s the characters of a text (a sequence of          *)
(* one-character strings, so that stripping and parsing are computed).     *)
(***************************************************************************)
EXTENDS Integers, Sequences, FiniteSets, TLC

-----------------------------------------------------------------------------
(* Bounds of the model *)

\* small integers 0..MaxNum are among the numbers a cell may hold
MaxNum == 2
\* how many times one converter object is loaded in SpecReuse
MaxLoads == 3
\* populated rows (from row 4 down) of the sheets of SmallSheets
MaxRows == 3

-----------------------------------------------------------------------------
(* Python values *)

None == [t |-> "none", v |-> 0, s |-> <<>>]
Num(n) == [t |-> "num", v |-> n, s |-> <<>>]
Str(chars) == [t |-> "str", v |-> 0, s |-> chars]
\* float('nan') and float('inf')
NaN == [t |-> "nan", v |-> 0, s |-> <<>>]
Inf == [t |-> "inf", v |-> 0, s |-> <<>>]
\* a cell value that is neither a number nor a text (datetime)
Date == [t |-> "date", v |-> 0, s |-> <<>>]

IsStr(x) == x.t = "str"

\* bool(x)
Truthy(x) ==
    CASE x.t = "none" -> FALSE
      [] x.t = "num" -> x.v # 0
      [] x.t = "str" -> x.s # <<>>
      [] OTHER -> TRUE

\* x == 0
EqZero(x) == x.t = "num" /\ x.v = 0

Whitespace == {" "}

RECURSIVE LStrip(_)
LStrip(chars) ==
    IF chars # <<>> /\ Head(chars) \in Whitespace THEN LStrip(Tail(chars)) ELSE chars

RECURSIVE RStrip(_)
RStrip(chars) ==
    IF chars # <<>> /\ chars[Len(chars)] \in Whitespace
    THEN RStrip(SubSeq(chars, 1, Len(chars) - 1))
    ELSE chars

\* str.strip()
Strip(chars) == RStrip(LStrip(chars))

DigitChar == <<"0", "1", "2", "3", "4", "5", "6", "7", "8", "9">>
Digits == {DigitChar[i] : i \in 1..10}
DigitVal(c) == (CHOOSE i \in 1..10 : DigitChar[i] = c) - 1

RECURSIVE NatToStr(_)
NatToStr(n) ==
    IF n < 10 THEN <<DigitChar[n + 1]>>
    ELSE NatToStr(n \div 10) \o <<DigitChar[(n % 10) + 1]>>

\* str(x), and the {x} of an f-string
PyStr(x) ==
    CASE x.t = "str" -> x.s
      [] x.t = "num" -> IF x.v < 0 THEN <<"-">> \o NatToStr(-x.v) ELSE NatToStr(x.v)
      [] x.t = "none" -> <<"None">>
      [] x.t = "nan" -> <<"n", "a", "n">>
      [] x.t = "inf" -> <<"i", "n", "f">>
      [] OTHER -> <<"<datetime>">>

RECURSIVE DigitsToNat(_)
DigitsToNat(chars) ==
    IF chars = <<>> THEN 0
    ELSE DigitsToNat(SubSeq(chars, 1, Len(chars) - 1)) * 10 + DigitVal(chars[Len(chars)])

AllDigits(chars) == chars # <<>> /\ \A i \in 1..Len(chars) : chars[i] \in Digits

\* float(text): [ok |-> FALSE] stands for ValueError. The texts of the model
\* are integers in decimal, 'nan' and 'inf', with an optional sign.
PyFloat(chars) ==
    LET t == Strip(chars)
        signed == t # <<>> /\ Head(t) \in {"-", "+"}
        neg == t # <<>> /\ Head(t) = "-"
        body == IF signed THEN Tail(t) ELSE t
    IN  IF AllDigits(body)
        THEN [ok |-> TRUE, val |-> Num(IF neg THEN -DigitsToNat(body) ELSE DigitsToNat(body))]
        ELSE IF body = <<"n", "a", "n">> THEN [ok |-> TRUE, val |-> NaN]
        ELSE IF body = <<"i", "n", "f">> THEN [ok |-> TRUE, val |-> Inf]
        ELSE [ok |-> FALSE, val |-> None]

-----------------------------------------------------------------------------
(* The worksheet *)

\* column_map of load_excel_data: field name -> column letter
column_map ==
    [customer |-> "B", building_id |-> "C", address |-> "D", city |-> "E",
     state |-> "F", zip |-> "G", building_type |-> "I", total_sq_ft |-> "J",
     cleanable_sq_ft |-> "K", alternate_productivity |-> "M",
     sun |-> "R", mon |-> "S", tue |-> "T", wed |-> "U",
     thu |-> "V", fri |-> "W", sat |-> "X",
     additional_costs |-> "AB",
     equipment_rental_1 |-> "AH", contract_terms_1 |-> "AI",
     equipment_rental_2 |-> "AJ", contract_terms_2 |-> "AK",
     wage_adjustment |-> "AO",
     dp_sun |-> "AQ", dp_mon |-> "AR", dp_tue |-> "AS", dp_wed |-> "AT",
     dp_thu |-> "AU", dp_fri |-> "AV", dp_sat |-> "AW",
     sup_sun |-> "AZ", sup_mon |-> "BA", sup_tue |-> "BB", sup_wed |-> "BC",
     sup_thu |-> "BD", sup_fri |-> "BE", sup_sat |-> "BF"]

Fields == DOMAIN column_map
Columns == {column_map[f] : f \in Fields}

\* the fields a missing cell of which becomes '' (the others become 0)
StringFields == {"customer", "building_id", "address", "city", "state", "building_type"}

\* numeric_fields of load_excel_data
NumericFields ==
    {"cleanable_sq_ft", "total_sq_ft", "zip", "alternate_productivity",
     "sun", "mon", "tue", "wed", "thu", "fri", "sat",
     "additional_costs", "wage_adjustment",
     "dp_sun", "dp_mon", "dp_tue", "dp_wed", "dp_thu", "dp_fri", "dp_sat",
     "sup_sun", "sup_mon", "sup_tue", "sup_wed", "sup_thu", "sup_fri", "sup_sat"}

\* the row the scan starts at, and the hard cap of the scan
StartRow == 4
RowCap == 100

\* ws[f'{col}{r}'].value: a cell the sheet does not hold reads as None
Cell(sheet, col, r) ==
    IF r \in DOMAIN sheet.rows THEN sheet.rows[r][col] ELSE None

\* the building type is trimmed like the other texts
CleanValueStripAll(field, value) ==
    IF value = None THEN (IF field \in StringFields THEN Str(<<>>) ELSE Num(0))
    ELSE IF IsStr(value) THEN Str(Strip(value.s))
    ELSE value

\* the cleanup of one cell value in the column loop
CleanValue(field, value) ==
    IF value = None THEN (IF field \in StringFields THEN Str(<<>>) ELSE Num(0))
    ELSE IF IsStr(value)
         THEN (IF field = "building_type" THEN value ELSE Str(Strip(value.s)))
         ELSE value

\* a text that does not parse is left as it is
CoerceNumericNoFallback(field, value) ==
    IF field \notin NumericFields THEN value
    ELSE IF value = Str(<<>>) THEN Num(0)
    ELSE IF IsStr(value)
         THEN (IF PyFloat(value.s).ok THEN PyFloat(value.s).val ELSE value)
         ELSE value

\* the conversion of one numeric field that may be stored as a string
CoerceNumeric(field, value) ==
    IF field \notin NumericFields THEN value
    ELSE IF value = Str(<<>>) THEN Num(0)
    ELSE IF IsStr(value)
         THEN (IF PyFloat(value.s).ok THEN PyFloat(value.s).val ELSE Num(0))
         ELSE value

\* building_data of one accepted row
BuildingData(sheet, r) ==
    [f \in Fields |-> CoerceNumeric(f, CleanValue(f, Cell(sheet, column_map[f], r)))]

\* the three checks that make the scan skip a row
SkipCustomer(sheet, r) == ~Truthy(Cell(sheet, "B", r))
\* the building id is not trimmed before the test
SkipBuildingIdUntrimmed(sheet, r) == ~Truthy(Cell(sheet, "C", r))

SkipBuildingId(sheet, r) ==
    \/ ~Truthy(Cell(sheet, "C", r))
    \/ Strip(PyStr(Cell(sheet, "C", r))) = <<>>
SkipCleanable(sheet, r) ==
    \/ ~Truthy(Cell(sheet, "K", r))
    \/ EqZero(Cell(sheet, "K", r))

\* the scan has no cap
InScanNoCap(sheet, r) == r <= sheet.max_row

\* the condition of the while loop
InScan(sheet, r) == r <= sheet.max_row /\ r <= RowCap

UnknownCustomer ==
    Str(<<"U", "n", "k", "n", "o", "w", "n", " ", "C", "u", "s", "t", "o", "m", "e", "r">>)

EmptyDict == [k \in {} |-> None]
DictGet(d, k, default) == IF k \in DOMAIN d THEN d[k] ELSE default

-----------------------------------------------------------------------------
(* convert_to_api_json *)

Chars12 == <<"1", "2">>
Chars24 == <<"2", "4">>
Chars36 == <<"3", "6">>
Chars60 == <<"6", "0">>

\* the numeric keys are missing
contract_terms_map_texts_only ==
    {<<Str(Chars12), Str(Chars12)>>, <<Str(Chars24), Str(Chars24)>>,
     <<Str(Chars36), Str(Chars36)>>, <<Str(Chars60), Str(Chars60)>>}

\* contract_terms_map: the pairs <<key, value>> of the dict
contract_terms_map ==
    {<<Str(Chars12), Str(Chars12)>>, <<Str(Chars24), Str(Chars24)>>,
     <<Str(Chars36), Str(Chars36)>>, <<Str(Chars60), Str(Chars60)>>,
     <<Num(12), Str(Chars12)>>, <<Num(24), Str(Chars24)>>,
     <<Num(36), Str(Chars36)>>, <<Num(60), Str(Chars60)>>}

\* dict.get(key, default) on a dict given as pairs
MapGet(map, key, default) ==
    IF \E p \in map : p[1] = key
    THEN (CHOOSE p \in map : p[1] = key)[2]
    ELSE default

\* one entry of the equipment list
EquipmentEntry(type, term) ==
    [equipmentType |-> type, contractTerm |-> MapGet(contract_terms_map, term, Str(<<>>))]

\* the equipment list of one building
Equipment(bd) ==
    (IF Truthy(bd.equipment_rental_1)
     THEN <<EquipmentEntry(bd.equipment_rental_1, bd.contract_terms_1)>> ELSE <<>>)
    \o
    (IF Truthy(bd.equipment_rental_2)
     THEN <<EquipmentEntry(bd.equipment_rental_2, bd.contract_terms_2)>> ELSE <<>>)

DayporterHours(bd) ==
    [sunday |-> bd.dp_sun, monday |-> bd.dp_mon, tuesday |-> bd.dp_tue,
     wednesday |-> bd.dp_wed, thursday |-> bd.dp_thu, friday |-> bd.dp_fri,
     saturday |-> bd.dp_sat]

SupervisorHours(bd) ==
    [sunday |-> bd.sup_sun, monday |-> bd.sup_mon, tuesday |-> bd.sup_tue,
     wednesday |-> bd.sup_wed, thursday |-> bd.sup_thu, friday |-> bd.sup_fri,
     saturday |-> bd.sup_sat]

Schedule(bd) ==
    [sunday |-> bd.sun, monday |-> bd.mon, tuesday |-> bd.tue,
     wednesday |-> bd.wed, thursday |-> bd.thu, friday |-> bd.fri,
     saturday |-> bd.sat]

\* productivity_override: {} or {"value": ...}
ProductivityOverride(bd) ==
    IF Truthy(bd.alternate_productivity)
    THEN [k \in {"value"} |-> bd.alternate_productivity]
    ELSE EmptyDict

\* weeks_per_month = 4.33, in hundredths
WeeksPerMonthHundredths == 433

\* monthly / weeks_per_month: the quotient of a number is kept exact, as the
\* numerator v of v / 433; "" is no exception
WeeklyRaises(monthly) ==
    IF WeeksPerMonthHundredths > 0 /\ monthly.t \in {"date", "str", "none"}
    THEN "TypeError" ELSE ""

WeeklyAdditionalCosts(monthly) ==
    IF WeeksPerMonthHundredths > 0
    THEN (IF monthly.t = "num"
          THEN [t |-> "quot", v |-> monthly.v * 100, s |-> <<>>]
          ELSE monthly)
    ELSE Num(0)

\* str(int(zip)) if zip else "": the exception int() raises, "" if none
PostalCodeRaises(zip) ==
    IF ~Truthy(zip) THEN ""
    ELSE CASE zip.t = "num" -> ""
           [] zip.t = "nan" -> "ValueError"
           [] zip.t = "inf" -> "OverflowError"
           [] OTHER -> "TypeError"

PostalCode(zip) ==
    IF Truthy(zip) /\ zip.t = "num" THEN Str(PyStr(zip)) ELSE Str(<<>>)

\* the exception building one Building raises, "" if none: the division of
\* the additional costs comes before the int() of the zip
BuildingRaises(bd) ==
    IF WeeklyRaises(bd.additional_costs) # ""
    THEN WeeklyRaises(bd.additional_costs)
    ELSE PostalCodeRaises(bd.zip)

\* the wage adjustment of the row is passed on as the hourly wage adjustment
ServiceWagePassedOn(bd) ==
    [lineItemObjectId |-> Str(<<"L", "I", "N", "E", "_">> \o PyStr(bd.building_id)),
     serviceType |-> "RJS",
     serviceFrequency |-> "weekly",
     schedule |-> Schedule(bd),
     inputs |-> <<[itemName |-> "cleanableSquareFootage",
                   itemValue |-> bd.cleanable_sq_ft]>>,
     productivityOverride |-> ProductivityOverride(bd),
     costAdjustments |->
        [hourlyWageAdjustment |-> bd.wage_adjustment,
         weeklyAdditionalCosts |-> WeeklyAdditionalCosts(bd.additional_costs)],
     equipment |-> Equipment(bd),
     dayporterHours |-> DayporterHours(bd),
     dayporterHourlyWageAdjustment |-> bd.wage_adjustment,
     supervisorHours |-> SupervisorHours(bd)]

\* the service of one building
Service(bd) ==
    [lineItemObjectId |-> Str(<<"L", "I", "N", "E", "_">> \o PyStr(bd.building_id)),
     serviceType |-> "RJS",
     serviceFrequency |-> "weekly",
     schedule |-> Schedule(bd),
     inputs |-> <<[itemName |-> "cleanableSquareFootage",
                   itemValue |-> bd.cleanable_sq_ft]>>,
     productivityOverride |-> ProductivityOverride(bd),
     costAdjustments |->
        [hourlyWageAdjustment |-> Num(0),
         weeklyAdditionalCosts |-> WeeklyAdditionalCosts(bd.additional_costs)],
     equipment |-> Equipment(bd),
     dayporterHours |-> DayporterHours(bd),
     dayporterHourlyWageAdjustment |-> bd.wage_adjustment,
     supervisorHours |-> SupervisorHours(bd)]

\* the building object of one record
Building(bd, customer_name) ==
    [buildingRecordId |-> Str(<<"B", "L", "D", "G", "_">> \o PyStr(bd.building_id)),
     buildingId |-> Str(PyStr(bd.building_id)),
     buildingName |-> Str(PyStr(customer_name) \o <<" ", "-", " ">> \o PyStr(bd.building_id)),
     facilityType |-> bd.building_type,
     location |->
        [state |-> bd.state,
         postalCode |-> PostalCode(bd.zip),
         address |-> bd.address,
         city |-> bd.city,
         country |-> "USA"],
     buildingDetails |->
        [totalSquareFootage |-> bd.total_sq_ft,
         cleanableSquareFootage |-> bd.cleanable_sq_ft],
     services |-> <<Service(bd)>>]

\* the outcomes of a call of convert_to_api_json
NotCalled == [kind |-> "notcalled", exc |-> "", doc |-> <<>>]
ReturnsNone == [kind |-> "none", exc |-> "", doc |-> <<>>]
Raises(e) == [kind |-> "raised", exc |-> e, doc |-> <<>>]
Returns(d) == [kind |-> "doc", exc |-> "", doc |-> d]

\* the records whose Building raises, in order
RaisingRecords(data) == {i \in 1..Len(data) : BuildingRaises(data[i]) # ""}

\* no test for an empty buildings_data
ConvertToApiJsonNoGuard(data, info, now) ==
    LET customer_name == DictGet(info, "customer_name", UnknownCustomer)
        first == CHOOSE i \in RaisingRecords(data) : \A j \in RaisingRecords(data) : i <= j
    IN  IF RaisingRecords(data) # {} THEN Raises(BuildingRaises(data[first]))
        ELSE Returns(
            [dealRecordId |->
                Str(<<"D", "E", "A", "L", "_">> \o PyStr(customer_name) \o <<"_">> \o now),
             customerRecordId |-> Str(<<"C", "U", "S", "T", "_">> \o PyStr(customer_name)),
             buildings |-> [i \in 1..Len(data) |-> Building(data[i], customer_name)]])

\* convert_to_api_json on the converter's fields, at the time `now`
ConvertToApiJson(data, info, now) ==
    LET customer_name == DictGet(info, "customer_name", UnknownCustomer)
        first == CHOOSE i \in RaisingRecords(data) : \A j \in RaisingRecords(data) : i <= j
    IN  IF data = <<>> THEN ReturnsNone
        ELSE IF RaisingRecords(data) # {} THEN Raises(BuildingRaises(data[first]))
        ELSE Returns(
            [dealRecordId |->
                Str(<<"D", "E", "A", "L", "_">> \o PyStr(customer_name) \o <<"_">> \o now),
             customerRecordId |-> Str(<<"C", "U", "S", "T", "_">> \o PyStr(customer_name)),
             buildings |-> [i \in 1..Len(data) |-> Building(data[i], customer_name)]])

-----------------------------------------------------------------------------
(* The workbooks uploaded *)

\* the texts a cell may hold
Texts ==
    {<<"A", "c", "m", "e">>, <<" ", "Z", "e", "d", " ">>, <<" ">>, <<"B", "1">>,
     <<"3", "6">>, <<" ", "3", "6">>, <<"9", "9">>, <<"0">>, <<"-", "5">>,
     <<"a", "b", "c">>, <<"n", "a", "n">>, <<"i", "n", "f">>}

\* the numbers a cell may hold
Numbers == (-1..MaxNum) \cup {12, 24, 36, 60, 99, 433, 5000}

\* the values a cell may hold
CellValues ==
    {None, Date} \cup {Num(n) : n \in Numbers} \cup {Str(t) : t \in Texts}

EmptyRow == [c \in Columns |-> None]

\* customer Acme, building B1, 5000 sq ft, Tuesday 2, a vacuum on 24 months
RowA ==
    [EmptyRow EXCEPT !["B"] = Str(<<"A", "c", "m", "e">>), !["C"] = Str(<<"B", "1">>),
                     !["K"] = Num(5000), !["T"] = Num(2),
                     !["AH"] = Str(<<"V", "a", "c">>), !["AI"] = Num(24)]

\* the same building id as RowA, at another address
RowA2 == [RowA EXCEPT !["D"] = Str(<<"1", " ", "M", "a", "i", "n">>), !["T"] = Num(0)]

\* another customer, a numeric building id, a padded building type
RowB ==
    [EmptyRow EXCEPT !["B"] = Str(<<"Z", "e", "d">>), !["C"] = Num(7),
                     !["G"] = Num(2), !["I"] = Str(<<" ", "O", "f", " ">>),
                     !["K"] = Str(<<"3", "6">>), !["AB"] = Num(433), !["AO"] = Num(1)]

\* rows the scan skips
RowNoCustomer == [RowA EXCEPT !["B"] = None]
RowBlankId == [RowB EXCEPT !["C"] = Str(<<" ">>)]
RowZeroSqFt == [RowA2 EXCEPT !["K"] = Num(0)]

SmallRows == {RowA, RowA2, RowB, RowNoCustomer, RowBlankId, RowZeroSqFt}

\* a sheet whose rows StartRow, StartRow + 1, ... are the given ones
SheetOf(rows) ==
    [max_row |-> StartRow - 1 + Len(rows),
     rows |-> [r \in StartRow..(StartRow - 1 + Len(rows)) |-> rows[r - StartRow + 1]]]

\* every sheet of at most MaxRows rows of SmallRows
SmallSheets == UNION {{SheetOf(rows) : rows \in [1..n -> SmallRows]} : n \in 0..MaxRows}

\* RowA with one cell replaced, before or after RowB
VarietyRows == {[RowA EXCEPT ![c] = x] : c \in Columns, x \in CellValues}
VarietySheets ==
    {SheetOf(<<v, RowB>>) : v \in VarietyRows} \cup {SheetOf(<<RowB, v>>) : v \in VarietyRows}

\* both rental slots and their contract terms
EquipmentTypes == {None, Str(<<"V", "a", "c">>), Str(<<" ">>), Num(1)}
ContractTerms ==
    {None, Num(36), Num(60), Num(99), Str(<<"3", "6">>), Str(<<" ", "3", "6">>), Str(<<"9", "9">>)}
EquipmentSheets ==
    {SheetOf(<<[RowB EXCEPT !["AH"] = e1, !["AI"] = t1, !["AJ"] = e2, !["AK"] = t2]>>) :
        e1 \in EquipmentTypes, t1 \in ContractTerms,
        e2 \in EquipmentTypes, t2 \in ContractTerms}

\* sheets with data above the start row and around the cap of the scan
EdgeRows == (3 :> RowA) @@ (4 :> RowB) @@ (RowCap :> RowA2) @@ (RowCap + 1 :> RowA)
EdgeSheets ==
    {[max_row |-> m, rows |-> [r \in {q \in DOMAIN EdgeRows : q <= m} |-> EdgeRows[r]]] :
        m \in {3, 4, RowCap, RowCap + 1, RowCap + 5}}

Sheets == SmallSheets \cup VarietySheets \cup EquipmentSheets \cup EdgeSheets

\* a sheet every row of which, from row 1 to past the cap, is an accepted one
FullSheet == [max_row |-> RowCap + 1, rows |-> [r \in 1..(RowCap + 1) |-> RowA]]

\* a workbook: unreadable, without the sheet, or with it
Corrupt == [kind |-> "corrupt", sheet |-> SheetOf(<<>>)]
NoSheet == [kind |-> "nosheet", sheet |-> SheetOf(<<>>)]
WithSheet(sh) == [kind |-> "ok", sheet |-> sh]

Workbooks == {Corrupt, NoSheet} \cup {WithSheet(sh) : sh \in Sheets}

\* the workbooks whose sheets reach the start row and the cap of the scan
CapWorkbooks ==
    {Corrupt, NoSheet} \cup {WithSheet(sh) : sh \in EdgeSheets \cup {FullSheet}}

\* the workbooks a converter that is loaded again is given
ReuseWorkbooks ==
    {Corrupt, NoSheet}
    \cup {WithSheet(SheetOf(rows)) :
            rows \in {<<>>, <<RowA>>, <<RowB, RowA2>>, <<RowNoCustomer, RowB>>, <<RowZeroSqFt>>}}

\* datetime.now().strftime('%Y%m%d_%H%M%S')
Timestamps == {<<"20240101_000000">>, <<"20240101_000001">>}

-----------------------------------------------------------------------------
(* The converter *)

VARIABLES
    buildings_data,   \* self.buildings_data
    customer_info,    \* self.customer_info
    pc,               \* "idle", or "scan" inside the while loop of load_excel_data
    ws,               \* the sheet of the last load that found one
    row,              \* the row counter of the scan
    customer_name,    \* the local customer_name of load_excel_data
    load_result,      \* what the last load_excel_data returned ("" before any)
    api_json,         \* the outcome of the last convert_to_api_json since the last load
    loads             \* how many times load_excel_data was called

vars == <<buildings_data, customer_info, pc, ws, row, customer_name, load_result,
          api_json, loads>>

\* ExcelToJSONConverter()
Init ==
    /\ buildings_data = <<>>
    /\ customer_info = EmptyDict
    /\ pc = "idle"
    /\ ws = SheetOf(<<>>)
    /\ row = 0
    /\ customer_name = None
    /\ load_result = ""
    /\ api_json = NotCalled
    /\ loads = 0

\* buildings_data is not emptied before the scan
LoadExcelDataNoReset(wb) ==
    /\ pc = "idle"
    /\ loads' = loads + 1
    /\ api_json' = NotCalled
    /\ \/ /\ wb.kind \in {"corrupt", "nosheet"}
          /\ load_result' = "False"
          /\ UNCHANGED <<buildings_data, customer_info, pc, ws, row, customer_name>>
       \/ /\ wb.kind = "ok"
          /\ ws' = wb.sheet
          /\ customer_name' = None
          /\ row' = StartRow
          /\ pc' = "scan"
          /\ load_result' = ""
          /\ UNCHANGED <<buildings_data, customer_info>>

\* load_excel_data up to the while loop: load_workbook raises, or the sheet is
\* absent, or the scan starts
LoadExcelData(wb) ==
    /\ pc = "idle"
    /\ loads' = loads + 1
    /\ api_json' = NotCalled
    /\ \/ /\ wb.kind \in {"corrupt", "nosheet"}
          /\ load_result' = "False"
          /\ UNCHANGED <<buildings_data, customer_info, pc, ws, row, customer_name>>
       \/ /\ wb.kind = "ok"
          /\ ws' = wb.sheet
          /\ buildings_data' = <<>>
          /\ customer_name' = None
          /\ row' = StartRow
          /\ pc' = "scan"
          /\ load_result' = ""
          /\ UNCHANGED customer_info

\* the row passes the three checks of the scan
Accepted(sheet, r) ==
    ~(SkipCustomer(sheet, r) \/ SkipBuildingId(sheet, r) \/ SkipCleanable(sheet, r))

\* a record of the same building id replaces the earlier one
StoreRecordMerging(data, bd) ==
    IF \E i \in 1..Len(data) : data[i].building_id = bd.building_id
    THEN [i \in 1..Len(data) |->
            IF data[i].building_id = bd.building_id THEN bd ELSE data[i]]
    ELSE Append(data, bd)

\* self.buildings_data.append(building_data)
StoreRecord(data, bd) == Append(data, bd)

\* every accepted row overrides the customer name
LastCustomerName(current, bd) == bd.customer

\* the customer name is taken from the first accepted row
FirstCustomerName(current, bd) == IF current = None THEN bd.customer ELSE current

\* customer_name or "Unknown Customer"
StoredCustomerName(name) == IF Truthy(name) THEN name ELSE UnknownCustomer

\* one iteration of the while loop: the row is skipped or appended
ScanRow ==
    /\ pc = "scan"
    /\ InScan(ws, row)
    /\ row' = row + 1
    /\ IF Accepted(ws, row)
       THEN /\ buildings_data' = StoreRecord(buildings_data, BuildingData(ws, row))
            /\ customer_name' = FirstCustomerName(customer_name, BuildingData(ws, row))
       ELSE UNCHANGED <<buildings_data, customer_name>>
    /\ UNCHANGED <<customer_info, pc, ws, load_result, api_json, loads>>

\* the end of the while loop: customer_info is stored and True returned
LoadReturn ==
    /\ pc = "scan"
    /\ ~InScan(ws, row)
    /\ customer_info' =
          IF buildings_data # <<>>
          THEN [k \in {"customer_name"} |-> StoredCustomerName(customer_name)]
          ELSE customer_info
    /\ load_result' = "True"
    /\ pc' = "idle"
    /\ UNCHANGED <<buildings_data, ws, row, customer_name, api_json, loads>>

\* convert_to_api_json
Convert(now) ==
    /\ pc = "idle"
    /\ api_json' = ConvertToApiJson(buildings_data, customer_info, now)
    /\ UNCHANGED <<buildings_data, customer_info, pc, ws, row, customer_name,
                   load_result, loads>>

\* one upload on a fresh converter, as main() does
Next ==
    \/ \E wb \in Workbooks : loads < 1 /\ LoadExcelData(wb)
    \/ ScanRow
    \/ LoadReturn
    \/ \E now \in Timestamps : Convert(now)

Spec == Init /\ [][Next]_vars

\* one converter loaded up to MaxLoads times
NextReuse ==
    \/ \E wb \in ReuseWorkbooks : loads < MaxLoads /\ LoadExcelData(wb)
    \/ ScanRow
    \/ LoadReturn
    \/ \E now \in Timestamps : Convert(now)

SpecReuse == Init /\ [][NextReuse]_vars

\* one upload of a sheet that reaches the cap of the scan. load_excel_data is
\* synchronous, single-threaded code: a scan that can take a step takes it.
NextCap ==
    \/ \E wb \in CapWorkbooks : loads < 1 /\ LoadExcelData(wb)
    \/ ScanRow
    \/ LoadReturn
    \/ \E now \in Timestamps : Convert(now)

SpecCap == Init /\ [][NextCap]_vars /\ WF_vars(ScanRow) /\ WF_vars(LoadReturn)

-----------------------------------------------------------------------------
(* What the claims speak of *)

Min(a, b) == IF a < b THEN a ELSE b

\* the rows the scan examines
ScannedRows(sheet) == StartRow..Min(sheet.max_row, RowCap)

\* a cell is empty: it holds nothing, an empty text or a zero
EmptyCell(x) == x = None \/ x = Str(<<>>) \/ x = Num(0)

\* a text of whitespace only
BlankText(x) == IsStr(x) /\ \A i \in 1..Len(x.s) : x.s[i] = " "

\* the acceptance test of a row: a customer name, a building id that is not
\* blank, a cleanable square footage that is present and not zero
PassesAcceptance(sheet, r) ==
    /\ ~EmptyCell(Cell(sheet, "B", r))
    /\ ~EmptyCell(Cell(sheet, "C", r)) /\ ~BlankText(Cell(sheet, "C", r))
    /\ ~EmptyCell(Cell(sheet, "K", r))

\* the accepted rows of the scan, top to bottom
AcceptedSet(sheet) == {r \in ScannedRows(sheet) : PassesAcceptance(sheet, r)}
AcceptedRows(sheet) ==
    [i \in 1..Cardinality(AcceptedSet(sheet)) |->
        CHOOSE r \in AcceptedSet(sheet) :
            Cardinality({q \in AcceptedSet(sheet) : q <= r}) = i]

\* t is s without its surrounding spaces
IsTrimOf(t, s) ==
    /\ t = <<>> \/ (t[1] # " " /\ t[Len(t)] # " ")
    /\ \E i \in 0..Len(s) : \E j \in i..Len(s) :
          /\ t = SubSeq(s, i + 1, j)
          /\ \A k \in (1..i) \cup ((j + 1)..Len(s)) : s[k] = " "

\* the text form of a cell: its text trimmed, or the string of its number
TrimmedText(x) == IF IsStr(x) THEN CHOOSE t \in {SubSeq(x.s, i, j) : i \in 1..(Len(x.s) + 1), j \in 0..Len(x.s)} : IsTrimOf(t, x.s) ELSE PyStr(x)

\* the row of the sheet the i-th stored record was read from
RowOfRecord(i) ==
    CHOOSE r \in AcceptedSet(ws) : Cardinality({q \in AcceptedSet(ws) : q <= r}) = i

HasDoc == api_json.kind = "doc"
Doc == api_json.doc

-----------------------------------------------------------------------------
(* C1 *)

\* C1: the buildings of a returned document are, in order, the accepted rows
\* of the sheet, one Building per row with that row's building id; none is
\* duplicated, merged or reordered, also when two rows share a building id.
C1_OneBuildingPerAcceptedRow ==
    HasDoc =>
        /\ Len(Doc.buildings) = Cardinality(AcceptedSet(ws))
        /\ \A i \in 1..Len(Doc.buildings) :
              Doc.buildings[i].buildingId =
                  Str(TrimmedText(Cell(ws, "C", RowOfRecord(i))))

\* a document of two Buildings with the same building id, after a skipped row
C1_Witness ==
    /\ HasDoc
    /\ Len(Doc.buildings) = 2
    /\ Doc.buildings[1].buildingId = Doc.buildings[2].buildingId
    /\ Doc.buildings[1] # Doc.buildings[2]
    /\ ~PassesAcceptance(ws, StartRow)

-----------------------------------------------------------------------------
(* C2 *)

\* the row fails the filter as C2 words it
FailsFilter(sheet, r) ==
    \/ Cell(sheet, "B", r) = None
    \/ Cell(sheet, "C", r) = None \/ BlankText(Cell(sheet, "C", r))
    \/ Cell(sheet, "K", r) = None \/ Cell(sheet, "K", r) = Num(0)

\* C2: the scan of a row with an empty customer cell, an empty or blank
\* building id or an absent or zero cleanable square footage adds no record,
\* and a returned document has no more Buildings than rows passing the filter.
C2_FilterStrict ==
    /\ [][(pc = "scan" /\ FailsFilter(ws, row)) => buildings_data' = buildings_data]_vars
    /\ [](HasDoc =>
            Len(Doc.buildings) <= Cardinality({r \in ScannedRows(ws) : ~FailsFilter(ws, r)}))

\* a finished load that skipped a row with a building id and a square footage
\* but no customer, and kept another row
C2_Witness ==
    /\ pc = "idle" /\ load_result = "True"
    /\ buildings_data # <<>>
    /\ \E r \in ScannedRows(ws) :
          /\ Cell(ws, "B", r) = None
          /\ Cell(ws, "C", r) # None /\ Cell(ws, "K", r) # None
    /\ Len(buildings_data) < Cardinality(ScannedRows(ws))

-----------------------------------------------------------------------------
(* C3 *)

\* C3: every stored record has a building id that is not empty and a
\* cleanable square footage that is a number above 0.
C3_RecordsValid ==
    \A i \in 1..Len(buildings_data) :
        /\ buildings_data[i].building_id # Str(<<>>)
        /\ buildings_data[i].cleanable_sq_ft.t = "num"
        /\ buildings_data[i].cleanable_sq_ft.v > 0

-----------------------------------------------------------------------------
(* C4 *)

\* C4: a convert_to_api_json called after a load_excel_data that returned
\* False returns None, whatever was loaded before.
C4_NoDocumentAfterFailedLoad ==
    (load_result = "False" /\ api_json # NotCalled) => api_json = ReturnsNone

-----------------------------------------------------------------------------
(* C5 *)

\* C5: whatever the cells of a row hold, load_excel_data followed by
\* convert_to_api_json runs to completion without raising.
C5_NeverRaises == api_json.kind # "raised"

-----------------------------------------------------------------------------
(* C6 *)

\* the numeric fields as C6 lists them
C6_Fields ==
    {"total_sq_ft", "cleanable_sq_ft", "zip", "alternate_productivity",
     "sun", "mon", "tue", "wed", "thu", "fri", "sat",
     "additional_costs", "wage_adjustment",
     "dp_sun", "dp_mon", "dp_tue", "dp_wed", "dp_thu", "dp_fri", "dp_sat",
     "sup_sun", "sup_mon", "sup_tue", "sup_wed", "sup_thu", "sup_fri", "sup_sat"}

\* what C6 says a numeric field holds for the cell value x
C6_Holds(stored, x) ==
    /\ x = None => stored = Num(0)
    /\ x.t = "num" => stored = x
    /\ (IsStr(x) /\ PyFloat(x.s).ok) => stored = PyFloat(x.s).val
    /\ (IsStr(x) /\ ~PyFloat(x.s).ok) => stored = Num(0)

\* C6: in every stored record each numeric field is 0 for a missing cell, the
\* parsed number for a numeric text, 0 for any other text, and the cell's own
\* number for a number.
C6_NumericCoercion ==
    /\ Len(buildings_data) <= Cardinality(AcceptedSet(ws))
    /\ \A i \in 1..Len(buildings_data) :
          LET r == RowOfRecord(i)
          IN  \A f \in C6_Fields :
                 C6_Holds(buildings_data[i][f], Cell(ws, column_map[f], r))

\* a stored record one numeric field of which was the text 'abc', now 0
C6_Witness ==
    /\ pc = "idle" /\ load_result = "True"
    /\ \E i \in 1..Len(buildings_data) : \E f \in C6_Fields :
          /\ Cell(ws, column_map[f], RowOfRecord(i)) = Str(<<"a", "b", "c">>)
          /\ buildings_data[i][f] = Num(0)
    /\ \E i \in 1..Len(buildings_data) :
          /\ Cell(ws, "K", RowOfRecord(i)) = Str(<<"3", "6">>)
          /\ buildings_data[i].cleanable_sq_ft = Num(36)

-----------------------------------------------------------------------------
(* C7 *)

\* C7: a load that finds the sheet and accepts no row returns True with an
\* empty buildings_data, convert_to_api_json then returns None, and every
\* document returned has at least one Building.
C7_EmptyResult ==
    /\ (pc = "idle" /\ load_result = "True" /\ AcceptedRows(ws) = <<>>) =>
          /\ buildings_data = <<>>
          /\ api_json \in {NotCalled, ReturnsNone}
    /\ HasDoc => Len(Doc.buildings) >= 1

\* a sheet with rows, none accepted: True, no record, and None from the convert
C7_Witness ==
    /\ pc = "idle" /\ load_result = "True"
    /\ DOMAIN ws.rows # {}
    /\ buildings_data = <<>>
    /\ api_json = ReturnsNone

-----------------------------------------------------------------------------
(* C8 *)

\* the text fields other than the building type
C8_TrimmedFields ==
    {"customer", "building_id", "address", "city", "state",
     "equipment_rental_1", "equipment_rental_2", "contract_terms_1", "contract_terms_2"}

\* C8: the facilityType of a Building is the text of the building-type cell
\* with its spaces, and every other text field is stored without its
\* surrounding spaces.
C8_FacilityTypeVerbatim ==
    /\ Len(buildings_data) <= Cardinality(AcceptedSet(ws))
    /\ \A i \in 1..Len(buildings_data) :
          LET r == RowOfRecord(i)
          IN  /\ IsStr(Cell(ws, "I", r)) =>
                    /\ buildings_data[i].building_type = Cell(ws, "I", r)
                    /\ HasDoc => Doc.buildings[i].facilityType = Cell(ws, "I", r)
              /\ \A f \in C8_TrimmedFields :
                    IsStr(Cell(ws, column_map[f], r)) =>
                        /\ IsStr(buildings_data[i][f])
                        /\ IsTrimOf(buildings_data[i][f].s, Cell(ws, column_map[f], r).s)

\* a document with a facilityType in spaces and a trimmed customer name
C8_Witness ==
    /\ HasDoc
    /\ \E i \in 1..Len(Doc.buildings) :
          /\ IsStr(Doc.buildings[i].facilityType)
          /\ Len(Doc.buildings[i].facilityType.s) >= 2
          /\ Head(Doc.buildings[i].facilityType.s) = " "
          /\ Doc.buildings[i].facilityType.s[Len(Doc.buildings[i].facilityType.s)] = " "
    /\ \E i \in 1..Len(buildings_data) :
          /\ Cell(ws, "B", RowOfRecord(i)) = Str(<<" ", "Z", "e", "d", " ">>)
          /\ buildings_data[i].customer = Str(<<"Z", "e", "d">>)

-----------------------------------------------------------------------------
(* C9 *)

\* the contractTerm C9 gives a contract term: the string form of 12, 24, 36
\* or 60, given as a number or as a text, and the empty string otherwise
C9_Term(x) ==
    IF x.t = "num" /\ x.v \in {12, 24, 36, 60} THEN Str(NatToStr(x.v))
    ELSE IF IsStr(x) /\ x.s \in {NatToStr(n) : n \in {12, 24, 36, 60}} THEN x
    ELSE Str(<<>>)

\* C9: the equipment list of a Building has an entry for slot 1 exactly when
\* the record's first equipment type is truthy and one for slot 2 exactly when
\* the second is, slot 1 first, each with the slot's contract term mapped.
C9_Equipment ==
    HasDoc =>
        \A i \in 1..Len(Doc.buildings) :
            LET bd == buildings_data[i]
                eq == Doc.buildings[i].services[1].equipment
                n1 == IF Truthy(bd.equipment_rental_1) THEN 1 ELSE 0
                n2 == IF Truthy(bd.equipment_rental_2) THEN 1 ELSE 0
            IN  /\ Len(eq) = n1 + n2
                /\ n1 = 1 =>
                      /\ eq[1].equipmentType = bd.equipment_rental_1
                      /\ eq[1].contractTerm = C9_Term(bd.contract_terms_1)
                /\ n2 = 1 =>
                      /\ eq[n1 + 1].equipmentType = bd.equipment_rental_2
                      /\ eq[n1 + 1].contractTerm = C9_Term(bd.contract_terms_2)

\* a Building with both slots, the first on the number 36 and the second on 99
C9_Witness ==
    /\ HasDoc
    /\ \E i \in 1..Len(Doc.buildings) :
          /\ buildings_data[i].contract_terms_1 = Num(36)
          /\ buildings_data[i].contract_terms_2 = Num(99)
          /\ Len(Doc.buildings[i].services[1].equipment) = 2
          /\ Doc.buildings[i].services[1].equipment[1].contractTerm = Str(<<"3", "6">>)
          /\ Doc.buildings[i].services[1].equipment[2].contractTerm = Str(<<>>)

-----------------------------------------------------------------------------
(* C10 *)

CustPrefix == <<"C", "U", "S", "T", "_">>

\* the trimmed customer name of the first accepted row
FirstAcceptedCustomer == TrimmedText(Cell(ws, "B", RowOfRecord(1)))

\* C10 as claimed: the customerRecordId of a document is "CUST_" followed by
\* the trimmed customer name of the first accepted row.
C10_FirstRowCustomer ==
    HasDoc => Doc.customerRecordId = Str(CustPrefix \o FirstAcceptedCustomer)

\* the customer name C10 as amended gives the deal
C10_Name ==
    IF FirstAcceptedCustomer = <<>> THEN UnknownCustomer.s ELSE FirstAcceptedCustomer

\* C10 as amended: the customerRecordId is "CUST_" followed by the trimmed
\* customer name of the first accepted row, or by "Unknown Customer" when that
\* name is empty; later rows do not change it, and every Building of the
\* document is named after that one customer.
C10_FirstRowCustomerOrUnknown ==
    HasDoc =>
        /\ Doc.customerRecordId = Str(CustPrefix \o C10_Name)
        /\ \A i \in 1..Len(Doc.buildings) :
              Doc.buildings[i].buildingName =
                  Str(C10_Name \o <<" ", "-", " ">> \o Doc.buildings[i].buildingId.s)

\* a document of two rows of two customers
C10_Witness ==
    /\ HasDoc
    /\ Len(Doc.buildings) >= 2
    /\ buildings_data[1].customer # buildings_data[2].customer
    /\ Doc.customerRecordId = Str(CustPrefix \o PyStr(buildings_data[1].customer))

-----------------------------------------------------------------------------
(* C11 *)

\* the service of the i-th Building of the document
ServiceOf(i) == Doc.buildings[i].services[1]

\* C11: in every Building the hourlyWageAdjustment of the cost adjustments is
\* 0 whatever the wage-adjustment cell holds, and the
\* dayporterHourlyWageAdjustment is the coerced value of that cell.
C11_WageAdjustment ==
    HasDoc =>
        \A i \in 1..Len(Doc.buildings) :
            LET cell == Cell(ws, "AO", RowOfRecord(i))
            IN  /\ ServiceOf(i).costAdjustments.hourlyWageAdjustment = Num(0)
                /\ C6_Holds(ServiceOf(i).dayporterHourlyWageAdjustment, cell)
                /\ cell.t \notin {"none", "num", "str"} =>
                      ServiceOf(i).dayporterHourlyWageAdjustment = cell

\* a Building whose wage-adjustment cell is the text 36: 0 in the cost
\* adjustments, the number 36 for the day porter
C11_Witness ==
    /\ HasDoc
    /\ \E i \in 1..Len(Doc.buildings) :
          /\ Cell(ws, "AO", RowOfRecord(i)) = Str(<<"3", "6">>)
          /\ ServiceOf(i).costAdjustments.hourlyWageAdjustment = Num(0)
          /\ ServiceOf(i).dayporterHourlyWageAdjustment = Num(36)

-----------------------------------------------------------------------------
(* C12 *)

\* the last row the scan examines
LastScanned == Min(ws.max_row, RowCap)

\* the most records a scan can keep: one per row from StartRow to RowCap
MaxRecords == RowCap - StartRow + 1

\* C12: the scan terminates; every step of it examines a row from StartRow to
\* min(max_row, RowCap) and moves the row counter to the next row, whether the
\* row is skipped or kept; the records are those of the accepted rows in that
\* range and no others, so never more than 97.
C12_ScanBounded ==
    /\ [][(pc = "scan" /\ pc' = "scan") =>
            /\ row \in StartRow..LastScanned
            /\ row' = row + 1
            /\ Len(buildings_data') \in {Len(buildings_data), Len(buildings_data) + 1}]_vars
    /\ [](pc = "scan" =>
            /\ row \in StartRow..(RowCap + 1)
            /\ row > LastScanned => ENABLED LoadReturn
            /\ row <= LastScanned => ENABLED ScanRow)
    /\ [](Len(buildings_data) <= MaxRecords
          /\ Len(buildings_data) =
                Cardinality({r \in AcceptedSet(ws) : pc = "scan" => r < row}))
    /\ (pc = "scan") ~> (pc = "idle" /\ load_result = "True")

\* a finished scan of a sheet with accepted rows above the start row and below
\* the cap, none of which was kept, next to the rows that were
C12_Witness ==
    /\ pc = "idle" /\ load_result = "True"
    /\ row = RowCap + 1
    /\ Accepted(ws, StartRow - 1) /\ Accepted(ws, RowCap + 1)
    /\ Len(buildings_data) = MaxRecords

-----------------------------------------------------------------------------
(* C13 *)

\* the i-th record was read from the i-th accepted row of the sheet
C13_RecordOfRow(bd, r) ==
    /\ PyStr(bd.building_id) = TrimmedText(Cell(ws, "C", r))
    /\ PyStr(bd.customer) = TrimmedText(Cell(ws, "B", r))
    /\ PyStr(bd.address) = (IF Cell(ws, "D", r) = None THEN <<>> ELSE TrimmedText(Cell(ws, "D", r)))

\* C13: after a load_excel_data that returned True, however many loads came
\* before it, buildings_data holds the accepted rows of that call's sheet and
\* nothing else, and when it is not empty the customer name of customer_info
\* comes from the first accepted row of that sheet.
C13_NoAccumulation ==
    (pc = "idle" /\ load_result = "True") =>
        /\ Len(buildings_data) = Cardinality(AcceptedSet(ws))
        /\ \A i \in 1..Len(buildings_data) :
              C13_RecordOfRow(buildings_data[i], RowOfRecord(i))
        /\ buildings_data # <<>> =>
              /\ DOMAIN customer_info = {"customer_name"}
              /\ PyStr(customer_info.customer_name) = C10_Name

\* a second or later load that returned True and kept no record, on a
\* converter an earlier load of which had kept some
C13_Witness ==
    /\ pc = "idle" /\ load_result = "True"
    /\ loads >= 2
    /\ buildings_data = <<>>
    /\ customer_info # EmptyDict

====
